---- MODULE Spec2Model ----
(***************************************************************************)
(* Turn/round state machine of the storytelling game in src/app.py: the    *)
(* Game and Contribution tables, the browser sessions, and the request     *)
(* handlers home, game, result and upload_image.  A POST to /game is two   *)
(* steps, the SELECT of line 215 and the commit of line 240, because       *)
(* requests served by different threads interleave between them.           *)
(***************************************************************************)
EXTENDS Integers, Sequences, FiniteSets, TLC

\* ---------------------------------------------------------------- bounds
\* rows of table contribution under sequential use
MaxContribs == 6
\* rows of table contribution when submissions interleave
MaxRaceContribs == 4
\* rows of table contribution when every handler runs
MaxWebContribs == 2
MaxPlayerCount == 2

\* --------------------------------------------------------- program values
\* the literal of `if game.round > 3`
TotalRounds == 3

\* the game codes os.urandom(4).hex() can return, cut down to two
Codes == {1, 2}
\* the browsers (session cookies) and the threads serving requests
Sessions == {1}
Workers == {1, 2}
\* player_count values a form can post: int() accepts zero (and negatives,
\* which the one comparison that reads max_players treats as it treats zero)
PlayerCounts == 0..MaxPlayerCount
\* the player counts that end a game within MaxRaceContribs submissions
ShortCounts == {0, 1}
Texts == {"a", "b"}
\* the contribution text where the interleaving of requests is what varies
RaceTexts == {"a"}
\* file names of the multipart field 'image'; NoFile: the field is absent
FileNames == {"", "pic.png", "notes.exe"}
NoFile == "<nofile>"
NoCode == 0
NoImage == <<>>
NoGame == [id |-> 0]
NoRequest == [id |-> 0, session |-> 0]

VARIABLES
    games,          \* table game, in id order (id = position)
    contributions,  \* table contribution, in id order
    session,        \* session['game_code'] of each browser session
    pc,             \* per worker thread: "idle" or "loaded" (between 215 and 240)
    snap,           \* per worker thread: the request's session and the
                    \* attributes of the Game object loaded at line 215
    response        \* per browser session: the last response it received

vars == <<games, contributions, session, pc, snap, response>>

\* ------------------------------------------------------------- the tables
\* Game(code=game_code, max_players=max_players) with the column defaults
NewGame(id, code, maxPlayers) ==
    [id |-> id, code |-> code, current_player |-> 1, max_players |-> maxPlayers,
     round |-> 1, is_complete |-> FALSE, image_url |-> NoImage]

\* Contribution(game_id, player_number, round_number, text)
NewContribution(id, game, text) ==
    [id |-> id, game_id |-> game.id, player_number |-> game.current_player,
     round_number |-> game.round, text |-> text]

\* Game.query.filter_by(code=...).first()
GameByCode(code) ==
    IF \E i \in 1..Len(games) : games[i].code = code
    THEN games[CHOOSE i \in 1..Len(games) :
                  /\ games[i].code = code
                  /\ \A j \in 1..Len(games) : games[j].code = code => i <= j]
    ELSE NoGame

\* the attributes of the loaded Game the POST branch of game() reads and
\* assigns
Loaded(g) ==
    [id |-> g.id, current_player |-> g.current_player,
     max_players |-> g.max_players, round |-> g.round,
     is_complete |-> g.is_complete]

\* the rows of one game, in id order
RECURSIVE SelectByGame(_, _)
SelectByGame(rows, gid) ==
    IF rows = <<>> THEN <<>>
    ELSE IF Head(rows).game_id = gid
         THEN <<Head(rows)>> \o SelectByGame(Tail(rows), gid)
         ELSE SelectByGame(Tail(rows), gid)

ContributionsOf(gid) == SelectByGame(contributions, gid)

\* ------------------------------------------------------------ turn engine
\* the turn rule without the increment of round
AdvanceTurnKeepsRound(g) ==
    IF g.current_player < g.max_players
    THEN [g EXCEPT !.current_player = g.current_player + 1]
    ELSE [g EXCEPT !.current_player = 1]

\* rounds that start again at 1 after round TotalRounds
AdvanceTurnWrapsRound(g) ==
    IF g.current_player < g.max_players
    THEN [g EXCEPT !.current_player = g.current_player + 1]
    ELSE [g EXCEPT !.current_player = 1,
                   !.round = IF g.round >= TotalRounds THEN 1 ELSE g.round + 1]

\* lines 230-234 on the loaded object
AdvanceTurn(g) ==
    IF g.current_player < g.max_players
    THEN [g EXCEPT !.current_player = g.current_player + 1]
    ELSE [g EXCEPT !.current_player = 1, !.round = g.round + 1]

\* the completion test one round early
CheckCompleteEarly(g) ==
    IF g.round >= TotalRounds THEN [g EXCEPT !.is_complete = TRUE] ELSE g

\* lines 236-238 on the loaded object
CheckComplete(g) ==
    IF g.round > TotalRounds THEN [g EXCEPT !.is_complete = TRUE] ELSE g

Advance(g) == CheckComplete(AdvanceTurn(g))

\* an UPDATE that sets every turn column from the request's object, changed
\* or not
WriteBackWholeRow(row, loaded, new) ==
    [row EXCEPT !.current_player = new.current_player,
                !.round = new.round,
                !.is_complete = new.is_complete]

\* The UPDATE the unit of work flushes at commit: only the attributes whose
\* value differs from the loaded one are written to the stored row.
WriteBack(row, loaded, new) ==
    [row EXCEPT
        !.current_player = IF new.current_player # loaded.current_player
                           THEN new.current_player ELSE @,
        !.round = IF new.round # loaded.round THEN new.round ELSE @,
        !.is_complete = IF new.is_complete # loaded.is_complete
                        THEN new.is_complete ELSE @]

\* ------------------------------------------------------------------ views
\* Contribution.query.filter_by(game_id).order_by(id.desc()).first(), and
\* its text or ""
LastContributionText(rows, gid) ==
    LET cs == SelectByGame(rows, gid)
    IN IF cs = <<>> THEN "" ELSE cs[Len(cs)].text

\* the template arguments of game.html, from the stored row g and the
\* contribution table rows
GameView(g, rows, showAll) ==
    [kind |-> "view",
     last_contribution |-> LastContributionText(rows, g.id),
     current_player |-> g.current_player,
     max_players |-> g.max_players,
     round |-> g.round,
     show_input |-> (g.current_player = 1 \/ showAll)]

Redirect(to) == [kind |-> "redirect", to |-> to]
ServerError == [kind |-> "error"]

\* ORDER BY player_number alone
KeyLessPlayerOnly(a, b) == a.player_number < b.player_number

\* ORDER BY round_number, player_number
KeyLess(a, b) ==
    \/ a.round_number < b.round_number
    \/ a.round_number = b.round_number /\ a.player_number < b.player_number

KeyEqual(a, b) ==
    a.round_number = b.round_number /\ a.player_number = b.player_number

\* The statement names no tie-break: rows with equal keys come back in
\* either order of their ids.
TieOrders == {"asc", "desc"}

Before(a, b, tie) ==
    \/ KeyLess(a, b)
    \/ KeyEqual(a, b) /\ (IF tie = "asc" THEN a.id < b.id ELSE a.id > b.id)

RECURSIVE InsertOrdered(_, _, _)
InsertOrdered(row, sorted, tie) ==
    IF sorted = <<>> THEN <<row>>
    ELSE IF Before(row, Head(sorted), tie)
         THEN <<row>> \o sorted
         ELSE <<Head(sorted)>> \o InsertOrdered(row, Tail(sorted), tie)

RECURSIVE SortRows(_, _)
SortRows(rows, tie) ==
    IF rows = <<>> THEN <<>>
    ELSE InsertOrdered(Head(rows), SortRows(Tail(rows), tie), tie)

\* Contribution.query.filter_by(game_id).order_by(round_number, player_number).all()
ListContributions(gid, tie) == SortRows(ContributionsOf(gid), tie)

\* allowed_file is called by upload_image and defined nowhere in app.py:
\* the extension is one of png, jpg, jpeg, gif
allowed_file(filename) == filename \in {"pic.png"}

\* secure_filename(f"{game_code}_{file.filename}")
StoredName(code, filename) == <<code, filename>>

\* ------------------------------------------------------------------- Init
Init ==
    /\ games = <<>>
    /\ contributions = <<>>
    /\ session = [s \in Sessions |-> NoCode]
    /\ pc = [w \in Workers |-> "idle"]
    /\ snap = [w \in Workers |-> NoRequest]
    /\ response = [s \in Sessions |-> [kind |-> "none"]]

Respond(s, r) == response' = [response EXCEPT ![s] = r]

\* --------------------------------------------------------------- handlers
\* POST / on a table whose code column has no unique index
StartGameNoUniqueIndex(s, code, playerCount) ==
    /\ games' = Append(games, NewGame(Len(games) + 1, code, playerCount))
    /\ session' = [session EXCEPT ![s] = code]
    /\ Respond(s, Redirect("game"))
    /\ UNCHANGED <<contributions, pc, snap>>

\* POST /: the INSERT succeeds unless the code is taken (unique=True)
StartGame(s, code, playerCount) ==
    /\ GameByCode(code) = NoGame
    /\ games' = Append(games, NewGame(Len(games) + 1, code, playerCount))
    /\ session' = [session EXCEPT ![s] = code]
    /\ Respond(s, Redirect("game"))
    /\ UNCHANGED <<contributions, pc, snap>>

\* POST / with a code that is taken: commit raises, nothing is stored and
\* the session is not touched
StartGameCollision(s, code) ==
    /\ GameByCode(code) # NoGame
    /\ Respond(s, ServerError)
    /\ UNCHANGED <<games, contributions, session, pc, snap>>

\* POST /game, line 215: load the session's game
SubmitLoad(w, s) ==
    /\ pc[w] = "idle"
    /\ session[s] # NoCode
    /\ snap' = [snap EXCEPT ![w] =
                   [session |-> s] @@ Loaded(GameByCode(session[s]))]
    /\ pc' = [pc EXCEPT ![w] = "loaded"]
    /\ UNCHANGED <<games, contributions, session, response>>

\* the submission recomputed at commit from the stored row, as a handler that
\* locked the row and read it again would
SubmitCommitReread(w, text, showAll) ==
    /\ pc[w] = "loaded"
    /\ Len(contributions) < MaxContribs
    /\ LET loaded == [session |-> snap[w].session] @@ Loaded(games[snap[w].id])
           new == Advance(loaded)
       IN /\ contributions' = Append(contributions,
                 NewContribution(Len(contributions) + 1, loaded, text))
          /\ games' = [games EXCEPT ![loaded.id] = WriteBack(@, loaded, new)]
          /\ Respond(loaded.session,
                     IF games'[loaded.id].is_complete
                     THEN Redirect("result")
                     ELSE GameView(games'[loaded.id], contributions', showAll))
    /\ pc' = [pc EXCEPT ![w] = "idle"]
    /\ snap' = [snap EXCEPT ![w] = NoRequest]
    /\ UNCHANGED session

\* a submission whose UPDATE has no WHERE clause: every row of table game
\* gets the new turn
SubmitCommitAllRows(w, text, showAll) ==
    /\ pc[w] = "loaded"
    /\ Len(contributions) < MaxContribs
    /\ LET loaded == snap[w]
           new == Advance(loaded)
       IN /\ contributions' = Append(contributions,
                 NewContribution(Len(contributions) + 1, loaded, text))
          /\ games' = [j \in 1..Len(games) |-> WriteBack(games[j], loaded, new)]
          /\ Respond(loaded.session,
                     IF games'[loaded.id].is_complete
                     THEN Redirect("result")
                     ELSE GameView(games'[loaded.id], contributions', showAll))
    /\ pc' = [pc EXCEPT ![w] = "idle"]
    /\ snap' = [snap EXCEPT ![w] = NoRequest]
    /\ UNCHANGED session

\* POST /game, lines 219-256: the INSERT and the UPDATE of one transaction,
\* then the redirect or the view read back from the tables
SubmitCommit(w, text, showAll) ==
    /\ pc[w] = "loaded"
    /\ Len(contributions) < MaxContribs
    /\ LET loaded == snap[w]
           new == Advance(loaded)
       IN /\ contributions' = Append(contributions,
                 NewContribution(Len(contributions) + 1, loaded, text))
          /\ games' = [games EXCEPT ![loaded.id] = WriteBack(@, loaded, new)]
          /\ Respond(loaded.session,
                     IF games'[loaded.id].is_complete
                     THEN Redirect("result")
                     ELSE GameView(games'[loaded.id], contributions', showAll))
    /\ pc' = [pc EXCEPT ![w] = "idle"]
    /\ snap' = [snap EXCEPT ![w] = NoRequest]
    /\ UNCHANGED session

\* a failed commit that leaves the INSERT behind, as two separately
\* committed statements would
SubmitFailKeepsInsert(w) ==
    /\ pc[w] = "loaded"
    /\ Len(contributions) < MaxContribs
    /\ \E text \in Texts :
          contributions' = Append(contributions,
              NewContribution(Len(contributions) + 1, snap[w], text))
    /\ pc' = [pc EXCEPT ![w] = "idle"]
    /\ snap' = [snap EXCEPT ![w] = NoRequest]
    /\ Respond(snap[w].session, ServerError)
    /\ UNCHANGED <<games, session>>

\* POST /game whose commit raises: the transaction is rolled back
SubmitFail(w) ==
    /\ pc[w] = "loaded"
    /\ pc' = [pc EXCEPT ![w] = "idle"]
    /\ snap' = [snap EXCEPT ![w] = NoRequest]
    /\ Respond(snap[w].session, ServerError)
    /\ UNCHANGED <<games, contributions, session>>

\* a GET that runs the POST branch's state update
GetViewAdvances(s, showAll) ==
    /\ session[s] # NoCode
    /\ LET g == GameByCode(session[s])
       IN /\ games' = [games EXCEPT ![g.id] = WriteBack(@, g, Advance(g))]
          /\ Respond(s, GameView(games'[g.id], contributions, showAll))
    /\ UNCHANGED <<contributions, session, pc, snap>>

\* GET /game, lines 212-215 and 245-256: no write
GetView(s, showAll) ==
    /\ Respond(s, IF session[s] = NoCode
                  THEN Redirect("home")
                  ELSE GameView(GameByCode(session[s]), contributions, showAll))
    /\ UNCHANGED <<games, contributions, session, pc, snap>>

\* GET /result
Result(s, tie) ==
    /\ Respond(s, IF session[s] = NoCode
                  THEN Redirect("home")
                  ELSE LET g == GameByCode(session[s])
                       IN [kind |-> "result",
                           contributions |-> ListContributions(g.id, tie),
                           game_code |-> g.code,
                           image_url |-> g.image_url])
    /\ UNCHANGED <<games, contributions, session, pc, snap>>

\* an upload that falls back to the session's game when no game has the
\* code of the URL
UploadImageFallsBack(s, code, file) ==
    LET g == IF GameByCode(code) = NoGame /\ session[s] # NoCode
             THEN GameByCode(session[s])
             ELSE GameByCode(code)
    IN /\ IF g = NoGame
          THEN /\ Respond(s, Redirect("home"))
               /\ UNCHANGED games
          ELSE IF file = NoFile \/ file = ""
          THEN /\ Respond(s, Redirect("upload_image"))
               /\ UNCHANGED games
          ELSE /\ Respond(s, Redirect("result"))
               /\ games' = IF allowed_file(file)
                           THEN [games EXCEPT ![g.id].image_url = StoredName(code, file)]
                           ELSE games
       /\ UNCHANGED <<contributions, session, pc, snap>>

\* POST /upload_image/<game_code>, sent by session s
UploadImage(s, code, file) ==
    LET g == GameByCode(code)
    IN /\ IF g = NoGame
          THEN /\ Respond(s, Redirect("home"))
               /\ UNCHANGED games
          ELSE IF file = NoFile \/ file = ""
          THEN /\ Respond(s, Redirect("upload_image"))
               /\ UNCHANGED games
          ELSE /\ Respond(s, Redirect("result"))
               /\ games' = IF allowed_file(file)
                           THEN [games EXCEPT ![g.id].image_url = StoredName(code, file)]
                           ELSE games
       /\ UNCHANGED <<contributions, session, pc, snap>>

\* no request is between its SELECT and its commit
AllIdle == \A w \in Workers : pc[w] = "idle"

\* every handler, requests interleaving between the load and the commit of
\* a submission
Next ==
    \/ \E s \in Sessions, c \in Codes, n \in PlayerCounts : StartGame(s, c, n)
    \/ \E s \in Sessions, c \in Codes : StartGameCollision(s, c)
    \/ \E w \in Workers, s \in Sessions : SubmitLoad(w, s)
    \/ \E w \in Workers, t \in RaceTexts, a \in BOOLEAN :
          Len(contributions) < MaxWebContribs /\ SubmitCommit(w, t, a)
    \/ \E w \in Workers : SubmitFail(w)
    \/ \E s \in Sessions, a \in BOOLEAN : GetView(s, a)
    \/ \E s \in Sessions, tie \in TieOrders : Result(s, tie)
    \/ \E s \in Sessions, c \in Codes, f \in FileNames \cup {NoFile} :
          UploadImage(s, c, f)

Spec == Init /\ [][Next]_vars

\* submissions of several requests interleaving, with new games
NextRace ==
    \/ \E s \in Sessions, c \in Codes, n \in PlayerCounts : StartGame(s, c, n)
    \/ \E w \in Workers, s \in Sessions : SubmitLoad(w, s)
    \/ \E w \in Workers, t \in RaceTexts, a \in BOOLEAN :
          Len(contributions) < MaxRaceContribs /\ SubmitCommit(w, t, a)
    \/ \E w \in Workers : SubmitFail(w)

SpecRace == Init /\ [][NextRace]_vars

\* every handler, on games of at most one player: these are complete after
\* TotalRounds submissions, so requests of every kind follow a completion
NextShort ==
    \/ \E s \in Sessions, c \in Codes, n \in ShortCounts : StartGame(s, c, n)
    \/ \E s \in Sessions, c \in Codes : StartGameCollision(s, c)
    \/ \E w \in Workers, s \in Sessions : SubmitLoad(w, s)
    \/ \E w \in Workers, t \in RaceTexts, a \in BOOLEAN :
          Len(contributions) < MaxRaceContribs /\ SubmitCommit(w, t, a)
    \/ \E w \in Workers : SubmitFail(w)
    \/ \E s \in Sessions, a \in BOOLEAN : GetView(s, a)
    \/ \E s \in Sessions, tie \in TieOrders : Result(s, tie)
    \/ \E s \in Sessions, c \in Codes, f \in FileNames \cup {NoFile} :
          UploadImage(s, c, f)

SpecShort == Init /\ [][NextShort]_vars

\* sequential use: a request starts only when no other is in flight
NextSeq ==
    \/ \E s \in Sessions, c \in Codes, n \in PlayerCounts :
          AllIdle /\ StartGame(s, c, n)
    \/ \E w \in Workers, s \in Sessions : AllIdle /\ SubmitLoad(w, s)
    \/ \E w \in Workers, t \in Texts, a \in BOOLEAN : SubmitCommit(w, t, a)
    \/ \E w \in Workers : SubmitFail(w)
    \/ \E s \in Sessions, tie \in TieOrders : AllIdle /\ Result(s, tie)

SpecSeq == Init /\ [][NextSeq]_vars

\* ------------------------------------------------------------ properties
GameIds == 1..Len(games)
NumContributions(i) == Len(ContributionsOf(i))
Turn(r) == <<r.current_player, r.round, r.is_complete>>

\* C1: every stored game has 1 <= current_player <= max_players and
\* round >= 1.
C1_TurnInvariants ==
    \A i \in GameIds :
        /\ 1 <= games[i].current_player
        /\ games[i].current_player <= games[i].max_players
        /\ games[i].round >= 1

\* C2: in every stored game is_complete is true exactly when
\* round > TotalRounds.
C2_CompleteIffRoundPastTotal ==
    \A i \in GameIds : games[i].is_complete <=> (games[i].round > TotalRounds)

C4_CompleteGameRejectsSubmission ==
    [][\A i \in GameIds :
          games[i].is_complete =>
              /\ SelectByGame(contributions', i) = SelectByGame(contributions, i)
              /\ Turn(games'[i]) = Turn(games[i])]_vars

\* the newest contribution of game i has the round and player of row r
LastRecordedUnder(rows, i, r) ==
    LET cs == SelectByGame(rows, i)
    IN /\ cs # <<>>
       /\ cs[Len(cs)].round_number = r.round
       /\ cs[Len(cs)].player_number = r.current_player

\* C5: when two requests have loaded the same stored row of a game and one
\* commits, the row moves one turn, the contribution is recorded under the
\* loaded (round, player), and the other request still holds the old row;
\* when that other request then commits, its contribution is recorded under
\* the same (round, player) and the stored turn does not move again.
C5_LostUpdate ==
    [][\A w \in Workers :
          (/\ pc[w] = "loaded"
           /\ pc'[w] = "idle"
           /\ Len(contributions') = Len(contributions) + 1)
          => LET i == snap[w].id
             IN /\ \A v \in Workers \ {w} :
                       (/\ pc[v] = "loaded"
                        /\ snap[v].id = i
                        /\ Turn(snap[v]) = Turn(games[i])
                        /\ Turn(snap[w]) = Turn(games[i]))
                       => /\ Turn(games'[i]) = Turn(Advance(snap[w]))
                          /\ LastRecordedUnder(contributions', i, snap[v])
                          /\ pc'[v] = "loaded"
                          /\ snap'[v] = snap[v]
                /\ (/\ Turn(games[i]) = Turn(Advance(snap[w]))
                    /\ LastRecordedUnder(contributions, i, snap[w]))
                   => /\ LastRecordedUnder(contributions', i, snap[w])
                      /\ Turn(games'[i]) = Turn(games[i])]_vars

C5_Witness ==
    \E i \in GameIds :
        /\ games[i].max_players = 2
        /\ games[i].current_player = 2
        /\ games[i].round = 1
        /\ NumContributions(i) = 2
        /\ \A k \in 1..2 : /\ ContributionsOf(i)[k].round_number = 1
                           /\ ContributionsOf(i)[k].player_number = 1

\* C6: every step either adds one contribution to a game together with the
\* UPDATE of the request that made it, or adds none and leaves the game's
\* current_player, round and is_complete as they were.
C6_AppendAndSaveTogether ==
    [][\A i \in GameIds :
          LET before == Len(SelectByGame(contributions, i))
              after == Len(SelectByGame(contributions', i))
          IN /\ after \in {before, before + 1}
             /\ after = before => Turn(games'[i]) = Turn(games[i])
             /\ after = before + 1 =>
                    \E w \in Workers, t \in Texts :
                        /\ pc[w] = "loaded"
                        /\ snap[w].id = i
                        /\ contributions'[Len(contributions')] =
                               NewContribution(Len(contributions) + 1, snap[w], t)
                        /\ Turn(games'[i]) =
                               Turn(WriteBack(games[i], snap[w], Advance(snap[w])))]_vars

C6_Witness ==
    \E s \in Sessions, i \in GameIds :
        /\ response[s] = ServerError
        /\ \A w \in Workers : pc[w] = "idle"
        /\ NumContributions(i) = 1
        /\ games[i].max_players = 2
        /\ games[i].current_player = 2

\* C7: every stored game has max_players >= 1.
C7_MaxPlayersPositive ==
    \A i \in GameIds : games[i].max_players >= 1

\* C8: under sequential use the listing ordered by (round_number,
\* player_number) is the game's rows in creation order, whatever order the
\* database gives equal keys, and a result page holds exactly those rows.
C8_ListingIsCreationOrder ==
    /\ \A i \in GameIds, tie \in TieOrders :
           ListContributions(i, tie) = ContributionsOf(i)
    /\ \A s \in Sessions :
           response[s].kind = "result" =>
               response[s].contributions =
                   ContributionsOf(GameByCode(response[s].game_code).id)

C8_Witness ==
    \E s \in Sessions :
        /\ response[s].kind = "result"
        /\ Len(response[s].contributions) = 5
        /\ GameByCode(response[s].game_code).max_players = 2
        /\ \E k \in 1..4 :
               response[s].contributions[k].text # response[s].contributions[k + 1].text

\* C9: a game with an image_url is complete.
C9_ImageOnlyWhenComplete ==
    \A i \in GameIds : games[i].image_url # NoImage => games[i].is_complete

\* C10: a step that answers a session with the game view and starts or ends
\* no submission writes nothing (games, contributions and sessions are
\* unchanged), and the view it returns is the one the stored row and the
\* stored contributions of the session's game give, so that it is the same
\* view as long as they do not change.
C10_GetViewReadsOnly ==
    [][\A s \in Sessions :
          (/\ pc' = pc
           /\ response'[s] # response[s]
           /\ response'[s].kind = "view")
          => /\ games' = games
             /\ contributions' = contributions
             /\ session' = session
             /\ \E a \in BOOLEAN :
                    response'[s] = GameView(GameByCode(session[s]), contributions, a)]_vars

C10_Witness ==
    \E s \in Sessions, i \in GameIds :
        /\ games[i].code = session[s]
        /\ response[s] = GameView(games[i], contributions, TRUE)
        /\ games[i].max_players = 2
        /\ NumContributions(i) = 0
        /\ \E j \in GameIds : NumContributions(j) = 1

\* C11: an upload addressed to a code that no stored game has is answered
\* with the redirect to the start page and stores nothing: every game keeps
\* its image_url, and the stored games, the contributions and the sessions
\* are the ones before the request.
C11_UploadUnknownCodeStoresNothing ==
    [][\A s \in Sessions, c \in Codes, f \in FileNames \cup {NoFile} :
          (GameByCode(c) = NoGame /\ UploadImage(s, c, f))
          => /\ response'[s] = Redirect("home")
             /\ Len(games') = Len(games)
             /\ \A i \in GameIds : games'[i] = games[i]
             /\ contributions' = contributions
             /\ session' = session]_vars

\* the session holds a game, so the redirect to the start page can only
\* answer an upload to the code that is not stored
C11_Witness ==
    \E s \in Sessions :
        /\ session[s] # NoCode
        /\ response[s] = Redirect("home")
        /\ Len(games) = 1
        /\ games[1].image_url # NoImage

\* C12: after every step no two stored games have the same code; games are
\* only ever added, one at a time, and a game that is added has a code no
\* stored game had and starts with current_player 1, round 1 and
\* is_complete false.
C12_CodesUniqueAndFreshStart ==
    [][/\ \A i, j \in 1..Len(games') :
              games'[i].code = games'[j].code => i = j
       /\ Len(games') \in {Len(games), Len(games) + 1}
       /\ Len(games') = Len(games) + 1 =>
              LET g == games'[Len(games')]
              IN /\ \A i \in GameIds : games[i].code # g.code
                 /\ g.current_player = 1
                 /\ g.round = 1
                 /\ g.is_complete = FALSE]_vars

\* a second game stored next to one that has moved on, and a request
\* answered with the server error a taken code gives
C12_Witness ==
    \E s \in Sessions :
        /\ Len(games) = 2
        /\ games[1].code # games[2].code
        /\ games[1].current_player = 2
        /\ Turn(games[2]) = <<1, 1, FALSE>>
        /\ session[s] = games[2].code
        /\ response[s] = ServerError

\* C13: every submission to a game with max_players 1 finds current_player
\* at 1, leaves it at 1 and raises round by exactly 1, and such a game is
\* complete exactly when it has 3 or more contributions.
C13_SinglePlayerLoop ==
    [][\A i \in GameIds :
          games[i].max_players = 1 =>
              /\ Len(SelectByGame(contributions', i)) = NumContributions(i) + 1 =>
                     /\ games[i].current_player = 1
                     /\ games'[i].current_player = 1
                     /\ games'[i].round = games[i].round + 1
              /\ games'[i].is_complete <=>
                     Len(SelectByGame(contributions', i)) >= TotalRounds]_vars

\* C14: completion is terminal: a stored game whose is_complete is true has
\* is_complete true after every step, whichever request takes it.
C14_CompletionIsTerminal ==
    [][\A i \in GameIds : games[i].is_complete => games'[i].is_complete]_vars

\* a complete game that a later, stale submission has written to, that has
\* been given an image and been viewed, next to a game started after it
C14_Witness ==
    \E s \in Sessions :
        /\ Len(games) = 2
        /\ games[1].is_complete
        /\ games[1].round <= TotalRounds
        /\ NumContributions(1) = TotalRounds + 1
        /\ games[1].image_url # NoImage
        /\ response[s].kind = "view"

C16_TurnRule ==
    [][\A i \in GameIds :
          LET after == Len(SelectByGame(contributions', i))
              n == games[i].max_players
          IN /\ (~games[i].is_complete /\ after = NumContributions(i) + 1) =>
                    IF games[i].current_player < n
                    THEN /\ games'[i].current_player = games[i].current_player + 1
                         /\ games'[i].round = games[i].round
                    ELSE /\ games'[i].current_player = 1
                         /\ games'[i].round = games[i].round + 1
             /\ (n >= 1 /\ after % n = 0) =>
                    /\ games'[i].current_player = 1
                    /\ games'[i].round = (after \div n) + 1]_vars

\* C17: every step leaves the stored contributions as they are and adds at
\* most one; the one it adds belongs to a stored game, has that game's
\* current_player and round as they were before the step, and a submitted
\* text.
C17_AppendOnlyLog ==
    [][/\ Len(contributions') \in {Len(contributions), Len(contributions) + 1}
       /\ \A k \in 1..Len(contributions) : contributions'[k] = contributions[k]
       /\ Len(contributions') = Len(contributions) + 1 =>
              LET c == contributions'[Len(contributions')]
              IN /\ c.game_id \in GameIds
                 /\ c.player_number = games[c.game_id].current_player
                 /\ c.round_number = games[c.game_id].round
                 /\ c.text \in Texts]_vars

\* C18: under sequential use no two contributions of the same game have the
\* same round_number and the same player_number.
C18_RoundPlayerIsKey ==
    \A j, k \in 1..Len(contributions) :
        (/\ contributions[j].game_id = contributions[k].game_id
         /\ KeyEqual(contributions[j], contributions[k]))
        => j = k

\* six contributions of one two-player game, the table being full
C18_Witness ==
    \E i \in GameIds :
        /\ games[i].max_players = 2
        /\ NumContributions(i) = 2 * TotalRounds
        /\ ContributionsOf(i)[1].player_number = 1
        /\ ContributionsOf(i)[2].player_number = 2
        /\ ContributionsOf(i)[2].round_number = 1

\* C19: under sequential use every stored game has
\* (round - 1) * max_players + (current_player - 1) contributions.
C19_CountersMatchLog ==
    \A i \in GameIds :
        NumContributions(i) =
            (games[i].round - 1) * games[i].max_players
                + (games[i].current_player - 1)

\* C20: a step that adds a contribution to a game adds it to that game alone
\* and changes nothing but that game's current_player, round and
\* is_complete: no game is added or removed, every game keeps its id, code,
\* max_players and image_url, and every other game keeps its whole row and
\* its contributions.
C20_SubmissionFrame ==
    [][Len(contributions') = Len(contributions) + 1 =>
          LET i == contributions'[Len(contributions')].game_id
          IN /\ Len(games') = Len(games)
             /\ i \in GameIds
             /\ \A j \in GameIds :
                    /\ games'[j].id = games[j].id
                    /\ games'[j].code = games[j].code
                    /\ games'[j].max_players = games[j].max_players
                    /\ games'[j].image_url = games[j].image_url
                    /\ j # i =>
                           /\ games'[j] = games[j]
                           /\ SelectByGame(contributions', j) =
                                  SelectByGame(contributions, j)]_vars

\* two games with an image each, the first one turn on, and the newest
\* contribution given to the second
C20_Witness ==
    /\ Len(games) = 2
    /\ games[1].image_url # NoImage
    /\ games[2].image_url # NoImage
    /\ games[1].max_players = 2
    /\ games[1].current_player = 2
    /\ Len(contributions) = 2
    /\ contributions[2].game_id = 2
    /\ games[2].round = 2

====
